---- MODULE Spec2Model ----
(***************************************************************************)
(* Flash partition tooling of InkWatchy (resources/tools/other/depracated): *)
(*   generatePartTable.py  - the Table Generator, a straight-line script    *)
(*   cleanPartition.py     - the Partition Eraser                           *)
(*                                                                         *)
(* Two specifications:                                                     *)
(*   Spec      - one Eraser run on a hand-written partition table and a    *)
(*               small binary image;                                       *)
(*   SpecBuild - one Generator run, followed by Eraser runs on the table   *)
(*               the Generator wrote.                                      *)
(*                                                                         *)
(* Text fields of the CSV (Offset, Size) are sequences of one-character    *)
(* strings; hex() and int(s, 16) are modelled digit by digit.  A binary    *)
(* image is a run-length encoded byte string: a sequence of runs           *)
(* [byte, count], so that images of several megabytes stay small states.   *)
(***************************************************************************)
EXTENDS Integers, Sequences, FiniteSets, TLC

VARIABLES
    \* ---- generatePartTable.py ----
    firmware_exists,              \* os.path.exists(firmware_path)
    firmware_size_bytes,          \* os.path.getsize(firmware_path)
    tolerance_percentage,         \* fsConfig.ini: tolerance
    flash_size_mb,                \* fsConfig.ini: flashSize
    app_partition_size_bytes,
    current_used_flash,
    spiffs_partition_size_bytes,
    partitions_csv,               \* file in/partitions.csv
    offset_txt,                   \* file in/offset.txt
    size_txt,                     \* file in/size.txt
    gen_pc,                       \* position in the Generator script
    gen_exit,                     \* <<>> while running, <<status>> once exited
    \* ---- cleanPartition.py ----
    argc,                         \* len(sys.argv)
    partition_name,               \* sys.argv[3]
    binary_file,                  \* content of the file sys.argv[2]
    binary_file0,                 \* its content when the Eraser started
    partitions,                   \* rows returned by parse_csv
    idx,                          \* loop position in calculate_partition_offset
    offset,                       \* the accumulator of calculate_partition_offset
    partition_offset,
    partition_size,
    dd_returncode,                \* <<>> until dd ran, then <<returncode>>
    stdout,                       \* tags of the messages printed by the Eraser
    er_pc,                        \* position in the Eraser
    er_exit                       \* <<>> while running, <<status>> once exited

gvars == <<firmware_exists, firmware_size_bytes, tolerance_percentage, flash_size_mb,
           app_partition_size_bytes, current_used_flash, spiffs_partition_size_bytes,
           offset_txt, size_txt, gen_pc, gen_exit>>
evars == <<argc, partition_name, binary_file, binary_file0, partitions, idx, offset,
           partition_offset, partition_size, dd_returncode, stdout, er_pc, er_exit>>
vars == <<gvars, partitions_csv, evars>>

-----------------------------------------------------------------------------
(* Bounds of the model                                                     *)

\* longest hand-written table given to the Eraser under Spec
MaxEntries == 3
\* largest flashSize (MB) of fsConfig.ini under SpecBuild
MaxFlashMB == 2
\* firmware sizes are k * 181000 + r for k in 0..MaxFirmwareSteps
MaxFirmwareSteps == 6

-----------------------------------------------------------------------------
(* Text conversions                                                        *)

HexDigits == <<"0", "1", "2", "3", "4", "5", "6", "7",
               "8", "9", "a", "b", "c", "d", "e", "f">>

RECURSIVE HexMagnitude(_)
HexMagnitude(n) ==
    IF n < 16 THEN <<HexDigits[n + 1]>>
    ELSE HexMagnitude(n \div 16) \o <<HexDigits[(n % 16) + 1]>>

\* Python hex(n), and f"0x{n:x}" for n >= 0
hex(n) ==
    IF n < 0 THEN <<"-", "0", "x">> \o HexMagnitude(-n)
    ELSE <<"0", "x">> \o HexMagnitude(n)

DecDigits == <<"0", "1", "2", "3", "4", "5", "6", "7", "8", "9">>

RECURSIVE DecMagnitude(_)
DecMagnitude(n) ==
    IF n < 10 THEN <<DecDigits[n + 1]>>
    ELSE DecMagnitude(n \div 10) \o <<DecDigits[(n % 10) + 1]>>

\* Python str(n)
str(n) == IF n < 0 THEN <<"-">> \o DecMagnitude(-n) ELSE DecMagnitude(n)

IsHexDigit(c) == \E i \in 1..16 : HexDigits[i] = c
HexDigitValue(c) == (CHOOSE i \in 1..16 : HexDigits[i] = c) - 1

RECURSIVE HexValue(_)
HexValue(s) ==
    IF s = <<>> THEN 0
    ELSE 16 * HexValue(SubSeq(s, 1, Len(s) - 1)) + HexDigitValue(s[Len(s)])

StripSign(s) ==
    IF s # <<>> /\ s[1] \in {"-", "+"} THEN Tail(s) ELSE s
StripPrefix(s) ==
    IF Len(s) >= 2 /\ s[1] = "0" /\ s[2] = "x" THEN SubSeq(s, 3, Len(s)) ELSE s

\* Python int(s, 16): an optional sign, an optional 0x prefix, then at least
\* one hex digit; anything else raises ValueError (ok = FALSE).
int16(s) ==
    LET digits == StripPrefix(StripSign(s))
        good   == digits # <<>> /\ \A i \in 1..Len(digits) : IsHexDigit(digits[i])
        mag    == IF good THEN HexValue(digits) ELSE 0
    IN  [ok  |-> good,
         val |-> IF s # <<>> /\ s[1] = "-" THEN -mag ELSE mag]

\* x & ~0xFFF on Python's unbounded two's-complement integers: clear the low
\* twelve bits, which rounds towards minus infinity (x % 4096 is in 0..4095).
AndNot0xFFF(x) == x - (x % 4096)

-----------------------------------------------------------------------------
(* generatePartTable.py                                                    *)

coredump_partition_size_bytes == 65536
nvs_partition_size_bytes == 12288
app_partition_offset == 65536

flash_size_bytes == flash_size_mb * 1024 * 1024

\* int(firmware_size_bytes * tolerance_fraction), tolerance_fraction being the
\* double nearest to tolerance/100.  The product is rounded to a double and
\* then truncated.  When tolerance/100 is a dyadic fraction (0, 1/4, 1/2, 3/4,
\* 1) the arithmetic is exact.  Otherwise the double product differs from the
\* rational one by far less than 1/100, so truncation can leave
\* floor(size * tolerance / 100) only when that quotient is exact, and then
\* only by landing just below it.  Both outcomes are kept.
ToleranceMargins(size, tolerance) ==
    LET q == (size * tolerance) \div 100
    IN  IF (tolerance * 4) % 100 = 0 \/ (size * tolerance) % 100 # 0 \/ q = 0
        THEN {q}
        ELSE {q, q - 1}

\* variant of line 34 without the + 0xFFF: the mask then rounds down
AppPartitionSizeRoundedDown(size, margin) == AndNot0xFFF(size + margin)
\* line 34
AppPartitionSize(size, margin) == AndNot0xFFF(size + margin + 4095)

\* lines 40-42
CurrentUsedFlash(app_size) ==
    coredump_partition_size_bytes + app_partition_offset
        + nvs_partition_size_bytes + app_size

\* variants of line 51: without the mask, and without the - 0xFFF
SpiffsPartitionSizeUnmasked(flash, used) == flash - used - 4095
SpiffsPartitionSizeNoSlack(flash, used) == AndNot0xFFF(flash - used)
\* line 51
SpiffsPartitionSize(flash, used) == AndNot0xFFF(flash - used - 4095)

Row(name, off, size) == [Name |-> name, Offset |-> off, Size |-> size]

\* lines 57-66; of the six columns only #Name, Offset and Size are modelled,
\* Type, SubType and Flags are constant text no code reads back.
PartitionTable(app_size, spiffs_size) ==
    << Row("app", hex(app_partition_offset), hex(app_size)),
       Row("coredump", <<>>, hex(coredump_partition_size_bytes)),
       Row("nvs", <<>>, hex(nvs_partition_size_bytes)),
       Row("littlefs", <<>>, hex(spiffs_size)) >>

AbsentFile == [kind |-> "absent", rows |-> <<>>, text |-> <<>>]
TemplateFile == [kind |-> "template", rows |-> <<>>, text |-> <<>>]
TableFile(rows) == [kind |-> "table", rows |-> rows, text |-> <<>>]
TextFile(text) == [kind |-> "text", rows |-> <<>>, text |-> text]

\* variant of lines 26-29 that treats the missing firmware as an error
FirmwareMissingExitsWithError ==
    /\ gen_pc = "start"
    /\ ~firmware_exists
    /\ partitions_csv' = TemplateFile
    /\ gen_pc' = "exited"
    /\ gen_exit' = <<1>>
    /\ UNCHANGED <<firmware_exists, firmware_size_bytes, tolerance_percentage,
                   flash_size_mb, app_partition_size_bytes, current_used_flash,
                   spiffs_partition_size_bytes, offset_txt, size_txt, evars>>

\* lines 26-29: no firmware.bin, copy the template and exit 0
FirmwareMissing ==
    /\ gen_pc = "start"
    /\ ~firmware_exists
    /\ partitions_csv' = TemplateFile
    /\ gen_pc' = "exited"
    /\ gen_exit' = <<0>>
    /\ UNCHANGED <<firmware_exists, firmware_size_bytes, tolerance_percentage,
                   flash_size_mb, app_partition_size_bytes, current_used_flash,
                   spiffs_partition_size_bytes, offset_txt, size_txt, evars>>

\* lines 31-42
ComputeAppPartition ==
    /\ gen_pc = "start"
    /\ firmware_exists
    /\ \E margin \in ToleranceMargins(firmware_size_bytes, tolerance_percentage) :
         /\ app_partition_size_bytes' = AppPartitionSize(firmware_size_bytes, margin)
         /\ current_used_flash' =
                CurrentUsedFlash(AppPartitionSize(firmware_size_bytes, margin))
    /\ gen_pc' = "write_offset"
    /\ UNCHANGED <<firmware_exists, firmware_size_bytes, tolerance_percentage,
                   flash_size_mb, spiffs_partition_size_bytes, offset_txt, size_txt,
                   gen_exit, partitions_csv, evars>>

\* lines 44-47
WriteOffsetTxt ==
    /\ gen_pc = "write_offset"
    /\ offset_txt' = TextFile(hex(current_used_flash))
    /\ gen_pc' = "write_size"
    /\ UNCHANGED <<firmware_exists, firmware_size_bytes, tolerance_percentage,
                   flash_size_mb, app_partition_size_bytes, current_used_flash,
                   spiffs_partition_size_bytes, size_txt, gen_exit, partitions_csv,
                   evars>>

\* lines 51-54
WriteSizeTxt ==
    /\ gen_pc = "write_size"
    /\ spiffs_partition_size_bytes' =
           SpiffsPartitionSize(flash_size_bytes, current_used_flash)
    /\ size_txt' = TextFile(str(SpiffsPartitionSize(flash_size_bytes, current_used_flash)))
    /\ gen_pc' = "write_table"
    /\ UNCHANGED <<firmware_exists, firmware_size_bytes, tolerance_percentage,
                   flash_size_mb, app_partition_size_bytes, current_used_flash,
                   offset_txt, gen_exit, partitions_csv, evars>>

\* lines 56-74; the script then ends, which is exit status 0
WritePartitionTable ==
    /\ gen_pc = "write_table"
    /\ partitions_csv' =
           TableFile(PartitionTable(app_partition_size_bytes, spiffs_partition_size_bytes))
    /\ gen_pc' = "exited"
    /\ gen_exit' = <<0>>
    /\ UNCHANGED <<firmware_exists, firmware_size_bytes, tolerance_percentage,
                   flash_size_mb, app_partition_size_bytes, current_used_flash,
                   spiffs_partition_size_bytes, offset_txt, size_txt, evars>>

-----------------------------------------------------------------------------
(* Binary images, run-length encoded                                       *)

Run(b, n) == [byte |-> b, count |-> n]
Fill(b, n) == IF n > 0 THEN <<Run(b, n)>> ELSE <<>>

RECURSIVE ImageLen(_)
ImageLen(img) ==
    IF img = <<>> THEN 0 ELSE Head(img).count + ImageLen(Tail(img))

\* the byte at 0-based position i < ImageLen(img)
RECURSIVE ImageByte(_, _)
ImageByte(img, i) ==
    IF i < Head(img).count THEN Head(img).byte
    ELSE ImageByte(Tail(img), i - Head(img).count)

\* the first n bytes (all of img when it is shorter)
RECURSIVE ImageTake(_, _)
ImageTake(img, n) ==
    IF n <= 0 \/ img = <<>> THEN <<>>
    ELSE IF Head(img).count <= n
         THEN <<Head(img)>> \o ImageTake(Tail(img), n - Head(img).count)
         ELSE <<Run(Head(img).byte, n)>>

\* what follows the first n bytes
RECURSIVE ImageDrop(_, _)
ImageDrop(img, n) ==
    IF n <= 0 \/ img = <<>> THEN img
    ELSE IF Head(img).count <= n
         THEN ImageDrop(Tail(img), n - Head(img).count)
         ELSE <<Run(Head(img).byte, Head(img).count - n)>> \o Tail(img)

-----------------------------------------------------------------------------
(* cleanPartition.py                                                       *)

\* variant of the dd command without conv=notrunc: the output ends where the
\* written range ends
DdTruncating(img, seek, count) ==
    IF count = 0 THEN img
    ELSE ImageTake(img, seek) \o Fill(0, seek - ImageLen(img)) \o Fill(0, count)
\* lines 27-34: dd if=/dev/zero of=F bs=1 seek=S count=C conv=notrunc, when it
\* completes.  dd seeks S bytes into F, writes C zero bytes there and does not
\* truncate; a seek past the end leaves a hole that reads as zeros; with C = 0
\* nothing is written.
Dd(img, seek, count) ==
    IF count = 0 THEN img
    ELSE ImageTake(img, seek) \o Fill(0, seek - ImageLen(img))
            \o Fill(0, count) \o ImageDrop(img, seek + count)

\* dd rejects a negative seek= or count= ("invalid number") without opening F
DdArgumentsValid(seek, count) == seek >= 0 /\ count >= 0

\* What a dd run can leave: completion (returncode 0), or a failure
\* (returncode 1) that wrote nothing (F cannot be opened) or stopped part way
\* (an I/O error after the first half of the range).
DdOutcomes(img, seek, count) ==
    IF ~DdArgumentsValid(seek, count)
    THEN {[returncode |-> 1, image |-> img]}
    ELSE {[returncode |-> 0, image |-> Dd(img, seek, count)],
          [returncode |-> 1, image |-> img],
          [returncode |-> 1, image |-> Dd(img, seek, count \div 2)]}

\* lines 18-23: what a row that is not the target adds to the accumulator
\* variant of lines 18-23 with the second test as an elif: a row adds its
\* Size or else its Offset, never both
ContributionElif(partition) ==
    IF partition.Size # <<>> THEN int16(partition.Size).val
    ELSE IF partition.Offset # <<>> THEN int16(partition.Offset).val ELSE 0
Contribution(partition) ==
    (IF partition.Size # <<>> THEN int16(partition.Size).val ELSE 0)
        + (IF partition.Offset # <<>> THEN int16(partition.Offset).val ELSE 0)

\* line 56: next(partition['Size'] for partition in partitions if name matches)
FirstMatch(rows, name) ==
    rows[CHOOSE i \in 1..Len(rows) :
            /\ rows[i].Name = name
            /\ \A j \in 1..(i - 1) : rows[j].Name # name]

ExitEraser(status, message) ==
    /\ er_pc' = "exited"
    /\ er_exit' = <<status>>
    /\ stdout' = Append(stdout, message)

\* lines 45-54: the argument check, then parse_csv
Main ==
    /\ er_pc = "main"
    /\ IF argc # 4
       THEN /\ ExitEraser(1, "usage")
            /\ UNCHANGED <<partitions, idx, offset>>
       ELSE /\ partitions_csv.kind = "table"
            /\ partitions' = partitions_csv.rows
            /\ idx' = 1
            /\ offset' = 0
            /\ er_pc' = "walk"
            /\ UNCHANGED <<er_exit, stdout>>
    /\ UNCHANGED <<gvars, partitions_csv, argc, partition_name, binary_file,
                   binary_file0, partition_offset, partition_size, dd_returncode>>

\* lines 15-17: the row under the loop is the target
WalkMatch ==
    /\ er_pc = "walk"
    /\ idx <= Len(partitions)
    /\ partitions[idx].Name = partition_name
    /\ partition_offset' = offset
    /\ er_pc' = "size"
    /\ UNCHANGED <<gvars, partitions_csv, argc, partition_name, binary_file,
                   binary_file0, partitions, idx, offset, partition_size,
                   dd_returncode, stdout, er_exit>>

\* lines 15-23: any other row
WalkAccumulate ==
    /\ er_pc = "walk"
    /\ idx <= Len(partitions)
    /\ partitions[idx].Name # partition_name
    /\ offset' = offset + Contribution(partitions[idx])
    /\ idx' = idx + 1
    /\ UNCHANGED <<gvars, partitions_csv, argc, partition_name, binary_file,
                   binary_file0, partitions, partition_offset, partition_size,
                   dd_returncode, stdout, er_pc, er_exit>>

\* variant of lines 58-60 that prints the error without sys.exit(1)
WalkNotFoundExitsZero ==
    /\ er_pc = "walk"
    /\ idx > Len(partitions)
    /\ ExitEraser(0, "partition not found in the CSV file")
    /\ UNCHANGED <<gvars, partitions_csv, argc, partition_name, binary_file,
                   binary_file0, partitions, idx, offset, partition_offset,
                   partition_size, dd_returncode>>

\* line 24 raises ValueError, lines 58-60 print it and exit 1
WalkNotFound ==
    /\ er_pc = "walk"
    /\ idx > Len(partitions)
    /\ ExitEraser(1, "partition not found in the CSV file")
    /\ UNCHANGED <<gvars, partitions_csv, argc, partition_name, binary_file,
                   binary_file0, partitions, idx, offset, partition_offset,
                   partition_size, dd_returncode>>

\* line 56; int('', 16) raises ValueError, caught at lines 58-60
ResolveSize ==
    /\ er_pc = "size"
    /\ LET size == int16(FirstMatch(partitions, partition_name).Size)
       IN  IF size.ok
           THEN /\ partition_size' = size.val
                /\ er_pc' = "clear"
                /\ UNCHANGED <<er_exit, stdout>>
           ELSE /\ ExitEraser(1, "invalid literal for int() with base 16")
                /\ UNCHANGED partition_size
    /\ UNCHANGED <<gvars, partitions_csv, argc, partition_name, binary_file,
                   binary_file0, partitions, idx, offset, partition_offset,
                   dd_returncode>>

\* lines 26-42 and the return of main: clear_partition runs dd, prints one
\* of two messages and returns; main then ends, which is exit status 0
ClearPartition ==
    /\ er_pc = "clear"
    /\ \E run \in DdOutcomes(binary_file, partition_offset, partition_size) :
         /\ binary_file' = run.image
         /\ dd_returncode' = <<run.returncode>>
         /\ ExitEraser(0, IF run.returncode # 0 THEN "Error executing dd"
                          ELSE "NVS partition cleared successfully")
    /\ UNCHANGED <<gvars, partitions_csv, argc, partition_name, binary_file0,
                   partitions, idx, offset, partition_offset, partition_size>>

-----------------------------------------------------------------------------
(* Inputs                                                                  *)

\* fsConfig.ini: tolerance, a percentage
Tolerances == 0..100
FlashSizesMB == 1..MaxFlashMB
\* sizes of firmware.bin: multiples of 100 bytes (the tolerance margin is then
\* an exact quotient) and sizes that are not; 5 * 181000 fills a 1 MB flash
\* exactly once aligned
FirmwareSizes == {k * 181000 + r : k \in 0..MaxFirmwareSteps, r \in {0, 37}}

FieldOffsets == {<<>>, <<"0", "x", "5">>}
FieldSizes == {<<>>, <<"0", "x", "a">>, <<"0", "x", "1", "4">>}
Rows == {Row(n, o, s) : n \in {"A", "B"}, o \in FieldOffsets, s \in FieldSizes}
\* every table of at most MaxEntries rows, names may repeat
SmallTables == UNION {[1..n -> Rows] : n \in 0..MaxEntries}
\* [A(size=10), B(size=20), C(size=30)] and [A(size=10), B(offset=5,size=20), C(size=30)]
ExampleSequential ==
    << Row("A", <<>>, hex(10)), Row("B", <<>>, hex(20)), Row("C", <<>>, hex(30)) >>
ExampleExplicitOffset ==
    << Row("A", <<>>, hex(10)), Row("B", hex(5), hex(20)), Row("C", <<>>, hex(30)) >>
ExampleTables == {ExampleSequential, ExampleExplicitOffset}
Tables == SmallTables \cup ExampleTables
\* "C" is in no small table
TargetNames == {"A", "B", "C"}
\* a 100-byte image holding zero and non-zero bytes, and one of 24 bytes that
\* most resolved ranges overrun
Images == { <<Run(255, 40), Run(0, 8), Run(7, 52)>>, <<Run(170, 24)>> }
\* the names the Generator writes, and one it does not
BuildTargetNames == {"app", "coredump", "nvs", "littlefs", "otadata"}

GeneratorNotRun ==
    /\ firmware_exists = FALSE
    /\ firmware_size_bytes = 0
    /\ tolerance_percentage = 0
    /\ flash_size_mb = 0
    /\ app_partition_size_bytes = 0
    /\ current_used_flash = 0
    /\ spiffs_partition_size_bytes = 0
    /\ offset_txt = AbsentFile
    /\ size_txt = AbsentFile
    /\ gen_pc = "not run"
    /\ gen_exit = <<>>

EraserLocals ==
    /\ binary_file0 = binary_file
    /\ partitions = <<>>
    /\ idx = 0
    /\ offset = 0
    /\ partition_offset = 0
    /\ partition_size = 0
    /\ dd_returncode = <<>>
    /\ stdout = <<>>
    /\ er_exit = <<>>

\* An Eraser started from the command line.  With a wrong argument count
\* nothing but sys.argv is read, so one table and one image stand for all.
Init ==
    /\ GeneratorNotRun
    /\ \/ /\ argc = 4
          /\ partitions_csv \in {TableFile(t) : t \in Tables}
          /\ partition_name \in TargetNames
          /\ binary_file \in Images
       \/ /\ argc = 3
          /\ partitions_csv = TableFile(<<>>)
          /\ partition_name = ""
          /\ binary_file = <<Run(170, 24)>>
    /\ er_pc = "main"
    /\ EraserLocals

Next ==
    \/ Main
    \/ WalkMatch
    \/ WalkAccumulate
    \/ WalkNotFound
    \/ ResolveSize
    \/ ClearPartition

Spec == Init /\ [][Next]_vars

\* A Generator about to run in a fresh checkout; the Eraser not yet started.
\* Without firmware.bin its size is never read.
InitBuild ==
    /\ firmware_exists \in BOOLEAN
    /\ firmware_size_bytes \in (IF firmware_exists THEN FirmwareSizes ELSE {0})
    /\ tolerance_percentage \in Tolerances
    /\ flash_size_mb \in FlashSizesMB
    /\ app_partition_size_bytes = 0
    /\ current_used_flash = 0
    /\ spiffs_partition_size_bytes = 0
    /\ partitions_csv = AbsentFile
    /\ offset_txt = AbsentFile
    /\ size_txt = AbsentFile
    /\ gen_pc = "start"
    /\ gen_exit = <<>>
    /\ argc = 0
    /\ partition_name = ""
    /\ binary_file = <<>>
    /\ er_pc = "idle"
    /\ EraserLocals

\* cleanPartition.py in/partitions.csv <flash image> <name>, run on the table
\* the Generator computed; the image is an erased flash (all 0xFF) of the
\* configured capacity
InvokeEraser ==
    /\ er_pc = "idle"
    /\ gen_pc = "exited"
    /\ partitions_csv.kind = "table"
    /\ \/ /\ argc' = 4
          /\ partition_name' \in BuildTargetNames
       \/ /\ argc' = 3
          /\ partition_name' = ""
    /\ binary_file' = Fill(255, flash_size_bytes)
    /\ binary_file0' = Fill(255, flash_size_bytes)
    /\ er_pc' = "main"
    /\ UNCHANGED <<gvars, partitions_csv, partitions, idx, offset, partition_offset,
                   partition_size, dd_returncode, stdout, er_exit>>

NextBuild ==
    \/ FirmwareMissing
    \/ ComputeAppPartition
    \/ WriteOffsetTxt
    \/ WriteSizeTxt
    \/ WritePartitionTable
    \/ InvokeEraser
    \/ Main
    \/ WalkMatch
    \/ WalkAccumulate
    \/ WalkNotFound
    \/ ResolveSize
    \/ ClearPartition

SpecBuild == InitBuild /\ [][NextBuild]_vars

-----------------------------------------------------------------------------
(* Properties of the Generator, checked under SpecBuild                    *)

\* the script went past line 34
AppSizeComputed == firmware_exists /\ gen_pc \in {"write_offset", "write_size", "write_table", "exited"}
\* the script went past line 51
FsSizeComputed == firmware_exists /\ gen_pc \in {"write_table", "exited"}
\* flashCapacityBytes - currentUsedFlash
RemainingSpace == flash_size_bytes - current_used_flash
\* the declared capacity is not smaller than appOffset + coredumpSize + nvsSize + appSize
ValidConfiguration == flash_size_bytes >= current_used_flash

\* C1: whenever the computed fsSize is zero or negative, the Generator run
\* ends in failure: it exits non-zero and writes no partition table holding
\* that fsSize.
C1_InfeasibleCapacityFails ==
    (FsSizeComputed /\ gen_pc = "exited" /\ spiffs_partition_size_bytes <= 0)
        => (gen_exit # <<0>> /\ partitions_csv.kind # "table")

\* C6: for every valid configuration the computed fsSize is a multiple of
\* 4096 and 0x10000 + 0x10000 + 0x3000 + appSize + fsSize <= flashCapacityBytes.
C6_FsSizeAlignedAndWithinCapacity ==
    (FsSizeComputed /\ ValidConfiguration)
        => /\ spiffs_partition_size_bytes % 4096 = 0
           /\ 65536 + 65536 + 12288 + app_partition_size_bytes
                  + spiffs_partition_size_bytes <= flash_size_bytes

C6_Witness ==
    /\ FsSizeComputed
    /\ ValidConfiguration
    /\ gen_pc = "exited"
    /\ spiffs_partition_size_bytes > 0
    /\ firmware_size_bytes % 4096 # 0

\* C7: for every firmware size >= 0 and tolerance in 0..100 the computed
\* appSize is a multiple of 4096 and at least the firmware size.
C7_AppSizeAlignedAndCoversFirmware ==
    AppSizeComputed
        => /\ app_partition_size_bytes % 4096 = 0
           /\ app_partition_size_bytes >= firmware_size_bytes

C7_Witness ==
    /\ AppSizeComputed
    /\ firmware_size_bytes > 0
    /\ firmware_size_bytes % 4096 # 0
    /\ tolerance_percentage = 0
    /\ app_partition_size_bytes - firmware_size_bytes < 4096

\* C9: when firmware.bin does not exist the Generator exits with status 0,
\* in/partitions.csv is a copy of the template and neither offset.txt nor
\* size.txt is written.
C9_MissingFirmwareFallsBack ==
    (~firmware_exists /\ gen_pc = "exited")
        => /\ gen_exit = <<0>>
           /\ partitions_csv = TemplateFile
           /\ offset_txt = AbsentFile
           /\ size_txt = AbsentFile

C9_Witness == ~firmware_exists /\ gen_pc = "exited"

\* C10 as claimed: for every valid configuration fsSize is the largest
\* multiple of 4096 that does not exceed the remaining space.
C10_FsSizeIsRemainingRoundedDown ==
    (FsSizeComputed /\ ValidConfiguration)
        => /\ spiffs_partition_size_bytes % 4096 = 0
           /\ spiffs_partition_size_bytes <= RemainingSpace
           /\ spiffs_partition_size_bytes + 4096 > RemainingSpace

\* C10 amended: for every valid configuration fsSize is the largest multiple
\* of 4096 that does not exceed the remaining space minus 0xFFF; the
\* remaining space being itself a multiple of 4096, that is the remaining
\* space minus 4096.
C10_FsSizeIsRemainingLessSlackRoundedDown ==
    (FsSizeComputed /\ ValidConfiguration)
        => /\ spiffs_partition_size_bytes % 4096 = 0
           /\ spiffs_partition_size_bytes <= RemainingSpace - 4095
           /\ spiffs_partition_size_bytes + 4096 > RemainingSpace - 4095
           /\ RemainingSpace % 4096 = 0
           /\ spiffs_partition_size_bytes = RemainingSpace - 4096

C10_Witness ==
    /\ FsSizeComputed
    /\ ValidConfiguration
    /\ RemainingSpace > 4096
    /\ tolerance_percentage > 0

-----------------------------------------------------------------------------
(* Properties of the Eraser on the Generator's table, under SpecBuild      *)

\* position of the first row named name
FirstIndex(rows, name) ==
    CHOOSE i \in 1..Len(rows) :
        /\ rows[i].Name = name
        /\ \A j \in 1..(i - 1) : rows[j].Name # name

\* where row i starts in flash: its explicit Offset when declared, otherwise
\* the end of the previous row (0 for a first row without Offset)
RECURSIVE LayoutStart(_, _)
LayoutStart(rows, i) ==
    IF rows[i].Offset # <<>> THEN int16(rows[i].Offset).val
    ELSE IF i = 1 THEN 0
    ELSE LayoutStart(rows, i - 1) + int16(rows[i - 1].Size).val

\* the Eraser returned from calculate_partition_offset and read the Size
RangeResolved == er_pc = "clear" \/ dd_returncode # <<>>

\* C5: for a table the Generator produced and each of its entry names, the
\* byte range the Eraser resolves is the region the entry occupies in the
\* flash layout.
C5_ResolvedRangeIsLayoutRegion ==
    (gen_pc = "exited" /\ RangeResolved)
        => LET i == FirstIndex(partitions, partition_name)
           IN  /\ partition_offset = LayoutStart(partitions, i)
               /\ partition_size = int16(partitions[i].Size).val

-----------------------------------------------------------------------------
(* Properties of the Eraser, checked under Spec                            *)

\* C2: when the target is found but dd fails with a non-zero return code,
\* the Eraser exits with status 1; it never exits 0 after a failed overwrite.
C2_FailedOverwriteExitsNonZero ==
    (er_pc = "exited" /\ dd_returncode # <<>> /\ dd_returncode # <<0>>)
        => er_exit = <<1>>

TargetAbsent ==
    /\ argc = 4
    /\ \A i \in 1..Len(partitions_csv.rows) :
           partitions_csv.rows[i].Name # partition_name

\* C3: when the target name equals no entry's name, the run fails with the
\* partition-not-found error (exit status 1), the binary image is unchanged
\* and clear_partition is never reached.
C3_AbsentNameFailsWithoutErasing ==
    TargetAbsent
        => /\ binary_file = binary_file0
           /\ dd_returncode = <<>>
           /\ er_pc \in {"main", "walk", "exited"}
           /\ er_pc = "exited"
                 => /\ er_exit = <<1>>
                    /\ stdout = <<"partition not found in the CSV file">>

C3_Witness ==
    /\ TargetAbsent
    /\ er_pc = "exited"
    /\ Len(partitions) >= 2

InRange(i) == partition_offset <= i /\ i < partition_offset + partition_size

\* C4: when offset + size <= image length, a completed erase sets every byte
\* of [offset, offset+size) to zero, leaves every other byte unchanged and
\* leaves the image length unchanged.
C4_EraseZeroesExactlyTheRange ==
    (dd_returncode = <<0>>
        /\ partition_offset + partition_size <= ImageLen(binary_file0))
        => /\ ImageLen(binary_file) = ImageLen(binary_file0)
           /\ \A i \in 0..(ImageLen(binary_file0) - 1) :
                  ImageByte(binary_file, i) =
                      IF InRange(i) THEN 0 ELSE ImageByte(binary_file0, i)

C4_Witness ==
    /\ dd_returncode = <<0>>
    /\ partition_offset > 0
    /\ partition_size > 0
    /\ partition_offset + partition_size < ImageLen(binary_file0)
    /\ \E i \in 0..(ImageLen(binary_file0) - 1) :
           InRange(i) /\ ImageByte(binary_file0, i) # 0
    /\ \E i \in 0..(ImageLen(binary_file0) - 1) :
           ~InRange(i) /\ ImageByte(binary_file, i) # 0

RECURSIVE SumOfSizes(_, _)
SumOfSizes(rows, k) ==
    IF k = 0 THEN 0
    ELSE SumOfSizes(rows, k - 1)
            + (IF rows[k].Size = <<>> THEN 0 ELSE int16(rows[k].Size).val)

RECURSIVE SumOfOffsets(_, _)
SumOfOffsets(rows, k) ==
    IF k = 0 THEN 0
    ELSE SumOfOffsets(rows, k - 1)
            + (IF rows[k].Offset = <<>> THEN 0 ELSE int16(rows[k].Offset).val)

\* calculate_partition_offset returned
OffsetResolved == er_pc \in {"size", "clear"} \/ dd_returncode # <<>>

\* C8: for a target present in the table, calculate_partition_offset
\* returns the sum, over the entries strictly before the first match, of the
\* Size (if set) plus the Offset (if set).  [A(10), B(20), C(30)] resolves C
\* to 30, and an entry after [A(10), B(offset=5, size=20)] resolves to 35.
C8_OffsetIsSumOverEarlierEntries ==
    OffsetResolved
        => LET k == FirstIndex(partitions, partition_name) - 1
           IN  /\ partition_offset = SumOfSizes(partitions, k) + SumOfOffsets(partitions, k)
               /\ (partitions = ExampleSequential /\ partition_name = "C")
                     => partition_offset = 30
               /\ (partitions = ExampleExplicitOffset /\ partition_name = "C")
                     => partition_offset = 35

C8_Witness ==
    /\ OffsetResolved
    /\ partitions = ExampleExplicitOffset
    /\ partition_name = "C"
    /\ partition_offset = 35

====
